---- MODULE Spec2Model ----
(***************************************************************************)
(* State-machine model of examples-ft/classification/delta.py: the         *)
(* experiment driver (main), the training loop (train) and the evaluation  *)
(* loop (validate) of the DELTA fine-tuning example.                       *)
(*                                                                         *)
(* Tensors are abstracted to small integers: a network is a pair of        *)
(* scalars (backbone, head) plus a flag telling whether its values are     *)
(* still finite; an activation is the layer that produced it, the network  *)
(* it belongs to and the number of the forward pass that captured it.      *)
(***************************************************************************)
EXTENDS Integers, Sequences, FiniteSets, TLC

(* ---------------------------- bounds ----------------------------------- *)
MaxEpochs == 2
MaxIters == 2
MaxValBatches == 2

(* ------------------------ domains of the inputs ------------------------ *)
PhaseChoices == {"train", "test"}
RegTypeChoices == {"l2", "l2_sp", "fea_map", "att_fea_map"}
AlphaVals == {0, 1}
BetaVals == {0, 1}
LrVals == {0, 1}
ParamVals == {0, 1}
ClsVals == {0, 3}
AccVals == {0, 100}

hook_layers == <<"layer1.2.conv3", "layer2.3.conv3", "layer3.5.conv3", "layer4.2.conv3">>
N == Len(hook_layers)

Pretrained == [backbone |-> 0, head |-> 1, finite |-> TRUE]
NoNet == [backbone |-> 0, head |-> 0, finite |-> TRUE]
FloatSentinel == [is_tensor |-> FALSE, val |-> 0 - 10]
Tensor(v) == [is_tensor |-> TRUE, val |-> v]

VARIABLES
    args,            \* the parsed command line (argparse.Namespace)
    env,             \* what the run finds outside: identifiers resolve, batches of the evaluation set
    pc,              \* position of the single thread of control
    abort_at,        \* where an exception ended the run ("" while none)
    params,          \* the target network (classifier)
    source_params,   \* the source network (source_classifier)
    source_weight,   \* source_dict['weight']: detached views of the source backbone
    target_layers,   \* activation buffer of the target network
    source_layers,   \* activation buffer of the source network
    fwd_count,       \* number of forward passes made so far (names a pass)
    epoch, i, vi,    \* loop counters of main, train and validate
    v_ret,           \* where validate returns to
    cls_loss, loss_fc, loss_feature, loss, loss_finite,   \* locals of a training step
    opt_steps,       \* optimizer.step() calls
    sched_steps,     \* lr_scheduler.step() calls
    batches_pulled,  \* next(train_iter) calls
    top1_count,      \* updates of validate's top1 meter
    acc1, best_acc1, \* locals of main
    latest, best,    \* the checkpoint files: <<>> when absent, <<checkpoint>> otherwise
    events,          \* what the current training step has done so far, in order
    steps_started,   \* training steps begun in this run
    nonfinite_at,    \* the training step (1-based) whose composed loss was first non-finite, 0 if none
    accs,            \* the validation accuracies returned to the epoch loop, in order
    val_calls,       \* calls of validate made so far
    measured         \* the parameters the accuracy in acc1 was measured on (NoNet when none is pending)

vars == <<args, env, pc, abort_at, params, source_params, source_weight, target_layers,
          source_layers, fwd_count, epoch, i, vi, v_ret, cls_loss, loss_fc, loss_feature,
          loss, loss_finite, opt_steps, sched_steps, batches_pulled, top1_count, acc1,
          best_acc1, latest, best, events, steps_started, nonfinite_at, accs, val_calls,
          measured>>

netVars == <<params, source_params, source_weight>>
bufVars == <<target_layers, source_layers, fwd_count>>
stepVars == <<cls_loss, loss_fc, loss_feature, loss, loss_finite>>
countVars == <<opt_steps, sched_steps, batches_pulled>>
fileVars == <<latest, best>>
ghostVars == <<events, steps_started, nonfinite_at, accs>>
histVars == <<val_calls, measured>>

ValidatePcs == {"v_loop", "v_clear"}

(* A checkpoint left in the log directory by an earlier run. *)
StaleCheckpoint ==
    [backbone |-> 1, head |-> 0, finite |-> TRUE, run |-> "earlier", epoch |-> 0, readable |-> TRUE]

(* A file of that name that torch.load cannot read. *)
CorruptCheckpoint ==
    [backbone |-> 0, head |-> 0, finite |-> TRUE, run |-> "earlier", epoch |-> 0, readable |-> FALSE]

(* torch.load and load_state_dict succeed on a file *)
Loadable(file) == file # <<>> /\ file[1].readable

Init ==
    /\ args \in [phase : PhaseChoices, reg_type : RegTypeChoices, alpha : AlphaVals,
                 beta : BetaVals, lr : LrVals, epochs : 0..MaxEpochs,
                 iters_per_epoch : 1..MaxIters]
    /\ env \in [identifiers_ok : BOOLEAN, val_batches : 0..MaxValBatches]
    /\ pc = "startup"
    /\ abort_at = ""
    /\ params = NoNet
    /\ source_params = NoNet
    /\ source_weight = [backbone |-> 0]
    /\ target_layers = <<>>
    /\ source_layers = <<>>
    /\ fwd_count = 0
    /\ epoch = 0 /\ i = 0 /\ vi = 0
    /\ v_ret = ""
    /\ cls_loss = 0 /\ loss_fc = 0 /\ loss_feature = Tensor(0) /\ loss = 0 /\ loss_finite = TRUE
    /\ opt_steps = 0 /\ sched_steps = 0 /\ batches_pulled = 0 /\ top1_count = 0
    /\ acc1 = 0 /\ best_acc1 = 0
    /\ latest = <<>>
    /\ best \in {<<>>, <<StaleCheckpoint>>, <<CorruptCheckpoint>>}
    /\ events = <<>>
    /\ steps_started = 0
    /\ nonfinite_at = 0
    /\ accs = <<>>
    /\ val_calls = 0
    /\ measured = NoNet

Abort(where) ==
    /\ pc' = "aborted"
    /\ abort_at' = where

(* ------------------- ftlib.finetune.delta (not among the sources) ------- *)

(* hook_function_wrapper / register_hook: a forward pass of a network makes  *)
(* every hooked layer append its output to the network's buffer, in          *)
(* registration order; nothing is removed.                                   *)
Capture(buffer, net, value, pass) ==
    buffer \o [k \in 1..N |-> [layer |-> hook_layers[k], net |-> net, val |-> value, pass |-> pass]]

(* reg_classifier: squared magnitude of the classification head's weights *)
reg_classifier(model) == model.head * model.head

(* reg_l2sp: squared distance of the backbone parameters to the snapshot; the head has no entry in it *)
reg_l2sp(model, weight) == (model.backbone - weight.backbone) * (model.backbone - weight.backbone)

RECURSIVE PairwiseSquares(_, _, _)
PairwiseSquares(src, tgt, k) ==
    IF k = 0 THEN 0
    ELSE (src[k].val - tgt[k].val) * (src[k].val - tgt[k].val) + PairwiseSquares(src, tgt, k - 1)

Min(a, b) == IF a < b THEN a ELSE b

(* reg_fea_map, the penalty part: squared differences of the activations paired by index *)
reg_fea_map(src, tgt) == PairwiseSquares(src, tgt, Min(Len(src), Len(tgt)))

(* ------------------------------- main ----------------------------------- *)

(* lines 62-100: datasets, the two networks, the hooks, the snapshot, the optimizer *)
Startup ==
    /\ pc = "startup"
    /\ IF env.identifiers_ok
          THEN /\ \E h \in ParamVals : params' = [Pretrained EXCEPT !.head = h]
               /\ source_params' = Pretrained
               /\ source_weight' = [backbone |-> Pretrained.backbone]
               /\ pc' = "resume"
               /\ UNCHANGED abort_at
          ELSE /\ Abort("startup")
               /\ UNCHANGED netVars
    /\ UNCHANGED <<args, env, bufVars, epoch, i, vi, v_ret, stepVars, countVars, top1_count,
                   acc1, best_acc1, fileVars, ghostVars, histVars>>

(* the state_dict a checkpoint holds *)
StateDict(ckpt) == [backbone |-> ckpt.backbone, head |-> ckpt.head, finite |-> ckpt.finite]

(* validate, lines 206-216: fresh meters, model.eval() *)
EnterValidate(ret) ==
    /\ vi' = 0
    /\ top1_count' = 0
    /\ v_ret' = ret
    /\ val_calls' = val_calls + 1
    /\ pc' = "v_loop"

ResumeWithFallback ==
    /\ pc = "resume"
    /\ IF args.phase # "train"
          THEN /\ params' = IF Loadable(best) THEN StateDict(best[1]) ELSE params
               /\ EnterValidate("test_print")
               /\ UNCHANGED <<abort_at, best_acc1>>
          ELSE /\ pc' = "epoch_loop"
               /\ best_acc1' = 0
               /\ UNCHANGED <<abort_at, params, vi, top1_count, v_ret, val_calls>>
    /\ UNCHANGED <<args, env, source_params, source_weight, bufVars, epoch, i, stepVars,
                   countVars, acc1, fileVars, ghostVars, measured>>

(* lines 103-110: the resume of the best checkpoint and the dispatch on the phase *)
ResumeAndDispatch ==
    /\ pc = "resume"
    /\ IF args.phase # "train"
          THEN IF ~Loadable(best)
                  THEN /\ Abort("resume")
                       /\ UNCHANGED <<params, vi, top1_count, v_ret, best_acc1, val_calls>>
                  ELSE /\ params' = StateDict(best[1])
                       /\ EnterValidate("test_print")
                       /\ UNCHANGED <<abort_at, best_acc1>>
          ELSE /\ pc' = "epoch_loop"
               /\ best_acc1' = 0
               /\ UNCHANGED <<abort_at, params, vi, top1_count, v_ret, val_calls>>
    /\ UNCHANGED <<args, env, source_params, source_weight, bufVars, epoch, i, stepVars,
                   countVars, acc1, fileVars, ghostVars, measured>>

TestFallsThrough ==
    /\ pc = "test_print"
    /\ measured' = NoNet
    /\ pc' = "epoch_loop"
    /\ UNCHANGED <<args, env, abort_at, netVars, bufVars, epoch, i, vi, v_ret, stepVars,
                   countVars, top1_count, acc1, best_acc1, fileVars, ghostVars, val_calls>>

(* lines 109-110 *)
TestReturn ==
    /\ pc = "test_print"
    /\ measured' = NoNet
    /\ pc' = "done"
    /\ UNCHANGED <<args, env, abort_at, netVars, bufVars, epoch, i, vi, v_ret, stepVars,
                   countVars, top1_count, acc1, best_acc1, fileVars, ghostVars, val_calls>>

(* line 114 and train's preamble, lines 141-159; line 129 when the loop is over *)
EpochLoop ==
    /\ pc = "epoch_loop"
    /\ IF epoch < args.epochs
          THEN /\ i' = 0
               /\ pc' = "t_loop"
          ELSE /\ pc' = "final_load"
               /\ UNCHANGED i
    /\ UNCHANGED <<args, env, abort_at, netVars, bufVars, epoch, vi, v_ret, stepVars,
                   countVars, top1_count, acc1, best_acc1, fileVars, ghostVars, histVars>>

(* ------------------------------- train ---------------------------------- *)

TrainStepBeginKeepsSource ==
    /\ pc = "t_loop"
    /\ i < args.iters_per_epoch
    /\ target_layers' = <<>>
    /\ batches_pulled' = batches_pulled + 1
    /\ steps_started' = steps_started + 1
    /\ events' = <<"clear">>
    /\ pc' = "t_forward"
    /\ UNCHANGED <<args, env, abort_at, netVars, source_layers, fwd_count, epoch, i, vi, v_ret,
                   stepVars, opt_steps, sched_steps, top1_count, acc1, best_acc1, fileVars,
                   nonfinite_at, accs, histVars>>

(* lines 160-168: the two clears and the next batch *)
TrainStepBegin ==
    /\ pc = "t_loop"
    /\ i < args.iters_per_epoch
    /\ target_layers' = <<>>
    /\ source_layers' = <<>>
    /\ batches_pulled' = batches_pulled + 1
    /\ steps_started' = steps_started + 1
    /\ events' = <<"clear">>
    /\ pc' = "t_forward"
    /\ UNCHANGED <<args, env, abort_at, netVars, fwd_count, epoch, i, vi, v_ret, stepVars,
                   opt_steps, sched_steps, top1_count, acc1, best_acc1, fileVars,
                   nonfinite_at, accs, histVars>>

TrainReturnEarly ==
    /\ pc = "t_loop"
    /\ i >= 1
    /\ cls_loss' = 0 /\ loss_fc' = 0 /\ loss_feature' = Tensor(0) /\ loss' = 0
    /\ loss_finite' = TRUE
    /\ pc' = "sched"
    /\ UNCHANGED <<args, env, abort_at, netVars, bufVars, epoch, i, vi, v_ret,
                   countVars, top1_count, acc1, best_acc1, fileVars, ghostVars, histVars>>

(* line 160, the loop is over: train returns and its locals are gone *)
TrainReturn ==
    /\ pc = "t_loop"
    /\ i >= args.iters_per_epoch
    /\ cls_loss' = 0 /\ loss_fc' = 0 /\ loss_feature' = Tensor(0) /\ loss' = 0
    /\ loss_finite' = TRUE
    /\ pc' = "sched"
    /\ UNCHANGED <<args, env, abort_at, netVars, bufVars, epoch, i, vi, v_ret,
                   countVars, top1_count, acc1, best_acc1, fileVars, ghostVars, histVars>>

(* line 171: y, f = model(x) *)
TrainForwardTarget ==
    /\ pc = "t_forward"
    /\ fwd_count' = fwd_count + 1
    /\ target_layers' = Capture(target_layers, "target", params.backbone, fwd_count + 1)
    /\ events' = Append(events, "forward_target")
    /\ pc' = "t_cls"
    /\ UNCHANGED <<args, env, abort_at, netVars, source_layers, epoch, i, vi, v_ret, stepVars,
                   countVars, top1_count, acc1, best_acc1, fileVars, steps_started,
                   nonfinite_at, accs, histVars>>

(* line 173: the cross entropy of the batch; it is finite or not (an input), *)
(* and never finite once the parameters are not                              *)
TrainClsLoss ==
    /\ pc = "t_cls"
    /\ \E c \in ClsVals :
          /\ cls_loss' = c
          /\ \/ params.finite /\ loss_finite' = TRUE
             \/ loss_finite' = FALSE
    /\ events' = Append(events, "cls_loss")
    /\ pc' = "t_reg"
    /\ UNCHANGED <<args, env, abort_at, netVars, bufVars, epoch, i, vi, v_ret, loss_fc,
                   loss_feature, loss, countVars, top1_count, acc1, best_acc1, fileVars,
                   steps_started, nonfinite_at, accs, histVars>>

(* lines 175-181: the penalties; reg_fea_map forwards the source network on the batch first *)
TrainRegularize ==
    /\ pc = "t_reg"
    /\ loss_fc' = reg_classifier(params)
    /\ IF args.reg_type = "l2_sp"
          THEN /\ loss_feature' = Tensor(reg_l2sp(params, source_weight))
               /\ events' = events \o <<"head_penalty", "strategy_penalty">>
               /\ UNCHANGED <<source_layers, fwd_count>>
          ELSE IF args.reg_type = "fea_map"
                  THEN /\ fwd_count' = fwd_count + 1
                       /\ source_layers' = Capture(source_layers, "source",
                                                   source_params.backbone, fwd_count + 1)
                       /\ loss_feature' = Tensor(reg_fea_map(source_layers', target_layers))
                       /\ events' = events \o <<"head_penalty", "forward_source", "strategy_penalty">>
                  ELSE /\ loss_feature' = FloatSentinel
                       /\ events' = Append(events, "head_penalty")
                       /\ UNCHANGED <<source_layers, fwd_count>>
    /\ pc' = "t_compose"
    /\ UNCHANGED <<args, env, abort_at, netVars, target_layers, epoch, i, vi, v_ret, cls_loss,
                   loss, loss_finite, countVars, top1_count, acc1, best_acc1, fileVars,
                   steps_started, nonfinite_at, accs, histVars>>

(* line 183 *)
ComposeLoss(cls, feature, fc) == cls + args.alpha * feature.val + args.beta * fc

(* lines 183-185 *)
TrainComposeLoss ==
    /\ pc = "t_compose"
    /\ loss' = ComposeLoss(cls_loss, loss_feature, loss_fc)
    /\ nonfinite_at' = IF ~loss_finite /\ nonfinite_at = 0 THEN steps_started ELSE nonfinite_at
    /\ events' = Append(events, "compose")
    /\ pc' = "t_meters"
    /\ UNCHANGED <<args, env, abort_at, netVars, bufVars, epoch, i, vi, v_ret, cls_loss,
                   loss_fc, loss_feature, loss_finite, countVars, top1_count, acc1, best_acc1,
                   fileVars, steps_started, accs, histVars>>

TrainSkipMeters ==
    /\ pc = "t_meters"
    /\ pc' = "t_backward"
    /\ UNCHANGED <<args, env, abort_at, netVars, bufVars, epoch, i, vi, v_ret, stepVars,
                   countVars, top1_count, acc1, best_acc1, fileVars, ghostVars, histVars>>

(* lines 187-190: the meters; .item() exists on a tensor, not on a float *)
TrainUpdateMeters ==
    /\ pc = "t_meters"
    /\ IF loss_feature.is_tensor
          THEN /\ events' = Append(events, "metrics")
               /\ pc' = "t_backward"
               /\ UNCHANGED abort_at
          ELSE /\ Abort("train_step")
               /\ UNCHANGED events
    /\ UNCHANGED <<args, env, netVars, bufVars, epoch, i, vi, v_ret, stepVars, countVars,
                   top1_count, acc1, best_acc1, fileVars, steps_started, nonfinite_at, accs, histVars>>

TrainableAll(net) == TRUE

(* lines 79-80 and 99: what an optimizer step may change: the parameters the  *)
(* optimizer was built over that take a gradient                              *)
Trainable(net) == net = "target"

SGDStepIgnoringLr(net, p) ==
    IF ~Trainable(net) THEN {p}
    ELSE IF ~loss_finite \/ ~p.finite THEN {[backbone |-> 0, head |-> 0, finite |-> FALSE]}
    ELSE [backbone : ParamVals, head : ParamVals, finite : {TRUE}]

(* SGD on one network: a non-finite loss gives non-finite gradients and so    *)
(* non-finite parameters; a learning rate of 0 moves nothing; any other moves *)
(* the parameters somewhere                                                   *)
SGDStep(net, p) ==
    IF ~Trainable(net) THEN {p}
    ELSE IF ~loss_finite \/ ~p.finite THEN {[backbone |-> 0, head |-> 0, finite |-> FALSE]}
    ELSE IF args.lr = 0 THEN {p}
    ELSE [backbone : ParamVals, head : ParamVals, finite : {TRUE}]

(* lines 193-202: zero_grad, backward, step, and the end of the iteration *)
TrainOptimize ==
    /\ pc = "t_backward"
    /\ params' \in SGDStep("target", params)
    /\ source_params' \in SGDStep("source", source_params)
    /\ source_weight' = [backbone |-> source_params'.backbone]
    /\ opt_steps' = opt_steps + 1
    /\ events' = events \o <<"backward", "optimizer_step">>
    /\ i' = i + 1
    /\ pc' = "t_loop"
    /\ UNCHANGED <<args, env, abort_at, bufVars, epoch, vi, v_ret, stepVars, sched_steps,
                   batches_pulled, top1_count, acc1, best_acc1, fileVars, steps_started,
                   nonfinite_at, accs, histVars>>

(* ------------------------- main, the epoch's end ------------------------- *)

SchedulerSkipped ==
    /\ pc = "sched"
    /\ EnterValidate("save")
    /\ UNCHANGED <<args, env, abort_at, netVars, bufVars, epoch, i, stepVars, countVars,
                   acc1, best_acc1, fileVars, ghostVars, measured>>

(* lines 118-121: the scheduler's step and the call of validate *)
SchedulerStep ==
    /\ pc = "sched"
    /\ sched_steps' = sched_steps + 1
    /\ EnterValidate("save")
    /\ UNCHANGED <<args, env, abort_at, netVars, bufVars, epoch, i, stepVars, opt_steps,
                   batches_pulled, acc1, best_acc1, fileVars, ghostVars, measured>>

(* ------------------------------ validate -------------------------------- *)

ValidateForwardTraining ==
    /\ pc = "v_loop"
    /\ vi < env.val_batches
    /\ fwd_count' = fwd_count + 1
    /\ target_layers' = Capture(target_layers, "target", params.backbone, fwd_count + 1)
    /\ params' = [params EXCEPT !.backbone = 1 - @]
    /\ pc' = "v_clear"
    /\ UNCHANGED <<args, env, abort_at, source_params, source_weight, source_layers, epoch, i,
                   vi, v_ret, stepVars, countVars, top1_count, acc1, best_acc1, fileVars,
                   ghostVars, histVars>>

(* lines 220-226: the next batch, the forward pass and the loss *)
ValidateForward ==
    /\ pc = "v_loop"
    /\ vi < env.val_batches
    /\ fwd_count' = fwd_count + 1
    /\ target_layers' = Capture(target_layers, "target", params.backbone, fwd_count + 1)
    /\ pc' = "v_clear"
    /\ UNCHANGED <<args, env, abort_at, netVars, source_layers, epoch, i, vi, v_ret, stepVars,
                   countVars, top1_count, acc1, best_acc1, fileVars, ghostVars, histVars>>

(* lines 227-240: the clear, the meters *)
ValidateClear ==
    /\ pc = "v_clear"
    /\ target_layers' = <<>>
    /\ top1_count' = top1_count + 1
    /\ vi' = vi + 1
    /\ pc' = "v_loop"
    /\ UNCHANGED <<args, env, abort_at, netVars, source_layers, fwd_count, epoch, i, v_ret,
                   stepVars, countVars, acc1, best_acc1, fileVars, ghostVars, histVars>>

(* lines 242-244: top1.avg, which is 0 while the meter was never updated and  *)
(* the mean of accuracies in [0, 100] otherwise                               *)
ValidateReturn ==
    /\ pc = "v_loop"
    /\ vi >= env.val_batches
    /\ \E a \in AccVals :
          /\ (top1_count = 0) => a = 0
          /\ acc1' = a
          /\ accs' = IF v_ret = "save" THEN Append(accs, a) ELSE accs
    /\ measured' = params
    /\ pc' = v_ret
    /\ UNCHANGED <<args, env, abort_at, netVars, bufVars, epoch, i, vi, v_ret, stepVars,
                   countVars, top1_count, best_acc1, fileVars, events, steps_started,
                   nonfinite_at, val_calls>>

(* ---------------------- main, the checkpoints ---------------------------- *)

(* line 124 *)
SaveLatest ==
    /\ pc = "save"
    /\ latest' = <<[backbone |-> params.backbone, head |-> params.head,
                    finite |-> params.finite, run |-> "this", epoch |-> epoch,
                    readable |-> TRUE]>>
    /\ pc' = "best"
    /\ UNCHANGED <<args, env, abort_at, netVars, bufVars, epoch, i, vi, v_ret, stepVars,
                   countVars, top1_count, acc1, best_acc1, best, ghostVars, histVars>>

IsBetterOrEqual(a, b) == a >= b

(* line 125 *)
IsBetter(a, b) == a > b

(* line 127 *)
MaxFirst(a, b) == a

Max(a, b) == IF b > a THEN b ELSE a

(* lines 125-127 and the end of the epoch *)
UpdateBest ==
    /\ pc = "best"
    /\ best' = IF IsBetter(acc1, best_acc1) THEN latest ELSE best
    /\ best_acc1' = Max(acc1, best_acc1)
    /\ epoch' = epoch + 1
    /\ measured' = NoNet
    /\ pc' = "epoch_loop"
    /\ UNCHANGED <<args, env, abort_at, netVars, bufVars, i, vi, v_ret, stepVars, countVars,
                   top1_count, acc1, latest, ghostVars, val_calls>>

FinalLoadLatest ==
    /\ pc = "final_load"
    /\ IF ~Loadable(latest)
          THEN /\ Abort("final_load")
               /\ UNCHANGED <<params, vi, top1_count, v_ret, val_calls>>
          ELSE /\ params' = StateDict(latest[1])
               /\ EnterValidate("final_print")
               /\ UNCHANGED abort_at
    /\ UNCHANGED <<args, env, source_params, source_weight, bufVars, epoch, i, stepVars,
                   countVars, acc1, best_acc1, fileVars, ghostVars, measured>>

(* lines 129-133: the reload of the best checkpoint and the call of validate *)
FinalLoad ==
    /\ pc = "final_load"
    /\ IF ~Loadable(best)
          THEN /\ Abort("final_load")
               /\ UNCHANGED <<params, vi, top1_count, v_ret, val_calls>>
          ELSE /\ params' = StateDict(best[1])
               /\ EnterValidate("final_print")
               /\ UNCHANGED abort_at
    /\ UNCHANGED <<args, env, source_params, source_weight, bufVars, epoch, i, stepVars,
                   countVars, acc1, best_acc1, fileVars, ghostVars, measured>>

(* lines 134-136 *)
Finish ==
    /\ pc = "final_print"
    /\ measured' = NoNet
    /\ pc' = "done"
    /\ UNCHANGED <<args, env, abort_at, netVars, bufVars, epoch, i, vi, v_ret, stepVars,
                   countVars, top1_count, acc1, best_acc1, fileVars, ghostVars, val_calls>>

Next ==
    \/ Startup
    \/ ResumeAndDispatch
    \/ TestReturn
    \/ EpochLoop
    \/ TrainStepBegin
    \/ TrainReturn
    \/ TrainForwardTarget
    \/ TrainClsLoss
    \/ TrainRegularize
    \/ TrainComposeLoss
    \/ TrainUpdateMeters
    \/ TrainOptimize
    \/ SchedulerStep
    \/ ValidateForward
    \/ ValidateClear
    \/ ValidateReturn
    \/ SaveLatest
    \/ UpdateBest
    \/ FinalLoad
    \/ Finish

Spec == Init /\ [][Next]_vars
(* ============================== claims ================================== *)

RegistrationOrder(buffer) ==
    /\ Len(buffer) = N
    /\ \A k \in 1..N : buffer[k].layer = hook_layers[k]

(* C1: after every forward pass of the target network, in train or in        *)
(* validate, the target buffer holds exactly N entries in registration       *)
(* order, and it holds none right after each clear.                          *)
C1_BufferHoldsN ==
    /\ pc \in {"t_cls", "v_clear"} => RegistrationOrder(target_layers)
    /\ pc = "t_forward" => Len(target_layers) = 0
    /\ (pc = "v_loop" /\ vi > 0) => Len(target_layers) = 0

(* C2: the best checkpoint changes only at the end of an epoch whose         *)
(* accuracy is strictly greater than the best so far, and then becomes that  *)
(* epoch's checkpoint; on a tie it stays as the earlier epoch wrote it.      *)
C2_BestOnlyOnStrictlyGreater ==
    [][best' # best => (pc = "best" /\ acc1 > best_acc1 /\ best' = latest)]_vars

C2_TieKeptEarlier ==
    /\ pc = "epoch_loop"
    /\ Len(accs) >= 2
    /\ accs[1] > 0
    /\ accs[2] = accs[1]
    /\ best # <<>>
    /\ best[1].run = "this"
    /\ best[1].epoch = 0

RECURSIVE MaxOf(_)
MaxOf(s) ==
    IF s = <<>> THEN 0
    ELSE LET rest == MaxOf(SubSeq(s, 1, Len(s) - 1))
         IN  IF s[Len(s)] > rest THEN s[Len(s)] ELSE rest

EarliestMax(s) == CHOOSE k \in 1..Len(s) : s[k] = MaxOf(s) /\ \A j \in 1..(k - 1) : s[j] < s[k]

(* C3: in phase train with at least one epoch, when the epoch loop ends a    *)
(* best checkpoint written by this run exists and is the checkpoint of the   *)
(* earliest epoch that reached the maximum validation accuracy.              *)
C3_BestExistsAtLoopEnd ==
    (pc = "final_load" /\ args.epochs >= 1) =>
        /\ best # <<>>
        /\ best[1].run = "this"
        /\ best[1].epoch = EarliestMax(accs) - 1

Composed == pc \in {"t_meters", "t_backward"}

(* the penalty computed from the captured source and target activations *)
FeaturePenalty == reg_fea_map(source_layers, target_layers)

(* C4: the composed loss of a training step is classification loss +         *)
(* alpha * feature penalty + beta * parameter penalty, the feature penalty   *)
(* being computed from the captured activations and the parameter penalty    *)
(* from the network's parameters, under every strategy.                      *)
C4_LossDecomposition ==
    (Composed /\ loss_finite) => loss = cls_loss + args.alpha * FeaturePenalty + args.beta * reg_classifier(params)

IsPrefix(s, t) == Len(s) <= Len(t) /\ SubSeq(t, 1, Len(s)) = s

StepOrder(reg) ==
    <<"clear", "forward_target", "cls_loss", "head_penalty">>
    \o (IF reg = "fea_map" THEN <<"forward_source", "strategy_penalty">>
        ELSE IF reg = "l2_sp" THEN <<"strategy_penalty">> ELSE <<>>)
    \o <<"compose", "metrics", "backward", "optimizer_step">>

(* C5, as stated: no update of the running metrics of a training step        *)
(* precedes that step's optimizer step.                                      *)
C5_MetricsAfterOptimizerStep ==
    \A k \in 1..Len(events) :
        events[k] = "metrics" => \E j \in 1..(k - 1) : events[j] = "optimizer_step"

(* C5, amended: a training step performs, as far as it gets, clear, forward  *)
(* target, classification loss, head penalty, forward source (fea_map only), *)
(* strategy penalty (l2_sp and fea_map only), compose, metrics, backward,    *)
(* optimizer step, in this order; a step that ends has performed them all.   *)
C5_StepOrder ==
    /\ IsPrefix(events, StepOrder(args.reg_type))
    /\ (pc = "t_loop" /\ i > 0) => events = StepOrder(args.reg_type)

C5_StepCompleted ==
    /\ pc = "t_loop"
    /\ i > 0
    /\ args.reg_type = "fea_map"
    /\ events = StepOrder("fea_map")

(* C6: only the selected strategy's penalty enters the total loss: under l2  *)
(* it is the head's weight norm and nothing else, and under l2_sp and        *)
(* fea_map the head's weight norm does not enter.                            *)
C6_OnlySelectedPenalty ==
    (Composed /\ loss_finite) =>
        /\ args.reg_type = "l2" => loss = cls_loss + args.beta * reg_classifier(params)
        /\ args.reg_type = "l2_sp" =>
               loss = cls_loss + args.alpha * reg_l2sp(params, source_weight)
        /\ args.reg_type = "fea_map" => loss = cls_loss + args.alpha * FeaturePenalty

(* C7: once the first training step has started, no training step aborts     *)
(* because of the selected strategy.                                         *)
C7_NoAbortInTrainingStep == abort_at # "train_step"

(* C8: after the training step whose composed loss was non-finite, the run   *)
(* starts no other training step, no validation pass and writes no           *)
(* checkpoint.                                                               *)
C8_NonFiniteTerminates ==
    nonfinite_at # 0 =>
        /\ steps_started = nonfinite_at
        /\ pc \notin ValidatePcs \cup {"save", "best", "final_load", "final_print", "done"}

(* C9: after startup the source network's parameters and the snapshot keep   *)
(* their startup values, whatever the optimizer steps do.                    *)
C9_SourceFrozen ==
    (pc # "startup" /\ abort_at # "startup") =>
        /\ source_params = Pretrained
        /\ source_weight = [backbone |-> Pretrained.backbone]

C9_TargetMoved ==
    /\ opt_steps >= 2
    /\ sched_steps >= 1
    /\ params.backbone # source_params.backbone
    /\ args.reg_type = "fea_map"

validateFrame == <<params, opt_steps, sched_steps, best_acc1, latest, best>>

(* C10: no step of validate changes the target parameters, the optimizer's   *)
(* or the scheduler's state, the best accuracy or a checkpoint file.         *)
C10_ValidateFrame ==
    [][(pc \in ValidatePcs) => UNCHANGED validateFrame]_vars

C10_ValidateReturned ==
    /\ pc = "save"
    /\ top1_count = 2
    /\ opt_steps >= 1
    /\ latest # <<>>

ValidateReturnPcs == {"save", "test_print", "final_print"}

(* C11: whenever validate returns, the target activation buffer is empty,    *)
(* whatever it held when validate was entered and for an evaluation set of   *)
(* any number of batches, zero included.                                     *)
C11_BufferEmptyOnReturn == pc \in ValidateReturnPcs => target_layers = <<>>

(* C12: in phase test the run loads the best checkpoint into the target      *)
(* network, runs validate exactly once and returns: no training step, no     *)
(* optimizer or scheduler step, and neither checkpoint is written.           *)
C12_TestOnlyEvaluates ==
    args.phase = "test" =>
        /\ steps_started = 0 /\ batches_pulled = 0 /\ opt_steps = 0 /\ sched_steps = 0
        /\ latest = <<>>
        /\ best = <<>> \/ best[1].run = "earlier"
        /\ pc \notin {"startup", "resume", "aborted"} =>
               (val_calls = 1 /\ Loadable(best) /\ params = StateDict(best[1]))

C12_TestDone ==
    /\ args.phase = "test"
    /\ args.epochs > 0
    /\ pc = "done"
    /\ val_calls = 1
    /\ top1_count = 2

(* C13: in phase test, with the best checkpoint missing or unreadable, the   *)
(* run aborts before any evaluation batch is processed and reports no        *)
(* accuracy.                                                                 *)
C13_TestAbortsWithoutBest ==
    (args.phase = "test" /\ ~Loadable(best)) =>
        /\ fwd_count = 0 /\ val_calls = 0
        /\ pc \in {"startup", "resume", "aborted"}
        /\ pc = "aborted" => abort_at \in {"startup", "resume"}

C13_AbortedOnCorruptBest ==
    /\ args.phase = "test"
    /\ best = <<CorruptCheckpoint>>
    /\ env.val_batches > 0
    /\ pc = "aborted"
    /\ abort_at = "resume"

TrainStepPcs == {"t_forward", "t_cls", "t_reg", "t_compose", "t_meters", "t_backward"}

EpochValidated == pc \in {"save", "best"} \/ (pc \in ValidatePcs /\ v_ret = "save")

(* C15: the scheduler is stepped once per epoch, after all the training      *)
(* steps of the epoch and before its validation pass: after k completed      *)
(* epochs it has been stepped k times, and it is stepped neither inside a    *)
(* training step nor in phase test.                                          *)
C15_SchedulerOncePerEpoch ==
    /\ sched_steps = IF EpochValidated THEN epoch + 1 ELSE epoch
    /\ EpochValidated => opt_steps = (epoch + 1) * args.iters_per_epoch
    /\ args.phase = "test" => sched_steps = 0

C15_SteppedBeforeValidation ==
    /\ pc = "v_loop"
    /\ v_ret = "save"
    /\ vi = 0
    /\ env.val_batches > 0
    /\ epoch = 1
    /\ sched_steps = 2

PenaltyComputed == pc \in {"t_compose", "t_meters", "t_backward"}

L2spPenaltyRight ==
    (args.reg_type = "l2_sp" /\ PenaltyComputed /\ params.finite) =>
        /\ loss_feature.is_tensor
        /\ params.backbone = source_weight.backbone => loss_feature.val = 0
        /\ params.backbone # source_weight.backbone => loss_feature.val > 0
        /\ steps_started = 1 => loss_feature.val = 0

ZeroLrKeepsParams ==
    (pc = "t_backward" /\ args.reg_type = "l2_sp" /\ args.lr = 0 /\ loss_finite /\ params.finite)
        => params' = params

(* C16: under l2_sp the penalty is 0 when the target's backbone parameters   *)
(* equal the snapshot and positive otherwise, whatever the head's weights;   *)
(* the first training step, made on the identically initialised networks,    *)
(* has penalty 0, and with learning rate 0 a training step of finite loss    *)
(* leaves the target parameters unchanged.                                   *)
C16_L2spPenalty == [](L2spPenaltyRight) /\ [][ZeroLrKeepsParams]_vars

C16_ZeroLrStepDone ==
    /\ args.reg_type = "l2_sp"
    /\ args.lr = 0
    /\ args.alpha = 1
    /\ pc = "t_loop"
    /\ i = 1
    /\ steps_started = 1
    /\ nonfinite_at = 0
    /\ events = StepOrder("l2_sp")
    /\ params.head # source_params.head
    /\ params.backbone = source_weight.backbone

(* C17: under fea_map, once the penalty of a training step is computed, the  *)
(* target buffer holds exactly the N activations of this step's target       *)
(* forward pass and the source buffer exactly the N activations of this      *)
(* step's source forward pass, entry k of both from registered layer k;      *)
(* nothing of an earlier step or of a validation pass is left in either.     *)
C17_FeaMapBuffersOfThisStep ==
    (args.reg_type = "fea_map" /\ PenaltyComputed) =>
        /\ Len(target_layers) = N
        /\ Len(source_layers) = N
        /\ \A k \in 1..N :
              /\ target_layers[k].layer = hook_layers[k]
              /\ source_layers[k].layer = hook_layers[k]
              /\ target_layers[k].net = "target"
              /\ source_layers[k].net = "source"
              /\ target_layers[k].pass = fwd_count - 1
              /\ source_layers[k].pass = fwd_count

C17_StepAfterValidation ==
    /\ args.reg_type = "fea_map"
    /\ pc = "t_compose"
    /\ epoch = 1
    /\ i = 1
    /\ val_calls = 1
    /\ env.val_batches > 0
    /\ Len(source_layers) = N
    /\ Len(target_layers) = N

WrittenThisRun(file) == file # <<>> /\ file[1].run = "this"

FinalEvaluation ==
    \/ pc \in {"v_loop", "v_clear"} /\ v_ret = "final_print"
    \/ pc = "final_print"
    \/ pc = "done" /\ args.phase = "train"

CheckpointsHoldMeasured ==
    /\ pc = "save" => params = measured
    /\ pc = "best" =>
          /\ WrittenThisRun(latest)
          /\ StateDict(latest[1]) = measured
          /\ latest[1].epoch = epoch
          /\ accs[epoch + 1] = acc1
    /\ WrittenThisRun(best) =>
          /\ best[1].epoch + 1 \in 1..Len(accs)
          /\ accs[best[1].epoch + 1] = best_acc1
    /\ (FinalEvaluation /\ WrittenThisRun(best)) => params = StateDict(best[1])
    /\ (pc = "final_print" /\ WrittenThisRun(best)) => measured = StateDict(best[1])

BestIsCopyOfLatest == (best' # best) => (pc = "best" /\ best' = latest)

(* C18: an accuracy is attributed to the parameters it was measured on: the  *)
(* parameters written to latest are those the epoch's validation pass ran on,*)
(* best is only ever a copy of that latest, a best written during this run   *)
(* is the checkpoint of the epoch whose accuracy is best_acc1, and the final *)
(* evaluation runs on the parameters of that checkpoint.                     *)
C18_AccuracyOfStoredParameters == [](CheckpointsHoldMeasured) /\ [][BestIsCopyOfLatest]_vars

C18_FinalOnEarlierBest ==
    /\ pc = "final_print"
    /\ WrittenThisRun(best)
    /\ best[1].epoch = 0
    /\ epoch = 2
    /\ accs = <<100, 0>>
    /\ latest # best
    /\ StateDict(latest[1]) # StateDict(best[1])
    /\ params = StateDict(best[1])

EpochBoundary == pc \in {"epoch_loop", "final_load"}

BestAccIsMaximum ==
    /\ EpochBoundary => (best_acc1 = MaxOf(accs) /\ Len(accs) = epoch)
    /\ (args.phase = "train" /\ pc \in {"final_load", "final_print", "done"}) =>
          (best_acc1 = MaxOf(accs) /\ best_acc1 \in 0..100)
    /\ best_acc1 \in 0..100

(* C19: at every epoch boundary best_acc1 is the maximum of 0 and the        *)
(* validation accuracies returned so far in this run; it never decreases,    *)
(* and with per-epoch accuracies in [0, 100] the final best accuracy is in   *)
(* [0, 100].                                                                 *)
C19_BestAccuracyIsRunningMax == [](BestAccIsMaximum) /\ [][best_acc1' >= best_acc1]_vars

C19_BestKeptOverWorseEpoch ==
    /\ pc = "epoch_loop"
    /\ epoch = 2
    /\ accs = <<100, 0>>
    /\ acc1 = 0
    /\ best_acc1 = 100
====
